---------------------------- MODULE Spec2Model ----------------------------
(***************************************************************************)
(* Model of the EV question/answer data-preparation pipeline:              *)
(*   - cleaning_pairs.py   deduplicate, is_fuzzy_duplicate                 *)
(*   - scrapper2.py        split_section_into_chunks, split_pdf_with_nlp   *)
(*   - data_preprocessing.py  split_by_sections, preprocess_data           *)
(*   - chunks_eval2.py / pipeline.py  safe_evaluate_chunk, evaluation loop *)
(*                                                                         *)
(* Text is modelled at two grains.  The deduplicator works on strings as   *)
(* sequences of one-character strings, so that strip(), lower(), split()   *)
(* and the token-set ratio are computed as the library computes them.      *)
(* The chunkers work on whitespace-normalised text as the sequence of its  *)
(* words (what str.split() returns).                                       *)
(***************************************************************************)
EXTENDS Integers, Sequences, FiniteSets, TLC

VARIABLES
    \* ---- cleaning_pairs.deduplicate
    pairs,          \* the argument: the list of raw Q&A records
    pos,            \* position of the for loop in pairs (1-based, next record)
    seen_exact,     \* set of exact keys
    unique_pairs,   \* the accepted records
    dedup_pc,       \* "idle" | "loop" | "returned" | "raised"
    \* ---- scrapper2.split_section_into_chunks
    heading,        \* argument: the section heading
    text,           \* argument: the section body, as its words
    max_words,      \* argument
    sentences,      \* sent_tokenize(text)
    sent_pos,       \* position of the for loop in sentences (1-based)
    current_chunk,  \* the sentences buffered
    word_count,     \* the words buffered
    result,         \* the (heading, chunk) pairs emitted
    chunk_pc,       \* "idle" | "loop" | "returned"
    \* ---- scrapper2.split_pdf_with_nlp / data_preprocessing.split_by_sections
    seg_path,       \* "pdf" (split_pdf_with_nlp) | "generic" (split_by_sections)
    doc,            \* argument text: the document, as its tokens
    seg_max_words,  \* argument max_words
    sections,       \* the sections found: (heading, body) in document order
    sec_pos,        \* position of the for loop over the sections (1-based)
    results,        \* the (heading, chunk) pairs collected
    seg_pc,         \* "idle" | "start" | "loop" | "returned" | "raised"
    \* ---- pipeline.py: the evaluation loop, with chunks_eval2.safe_evaluate_chunk
    processed_data, \* the chunk texts, in generation order
    eval_i,         \* i of for i, item in enumerate(processed_data) (0-based)
    attempt,        \* attempt of safe_evaluate_chunk's for loop (1-based)
    calls,          \* the invocations of the Quality Scorer made so far
    metrics_rows,   \* the data rows written to chunk_metrics_csv
    eval_failed,    \* the chunks reported "Failed to evaluate chunk i"
    pipe_pc,        \* "idle" | "eval" | "eval_done"
    \* ---- pipeline.py: the Q&A loop, with generate_QA.generate_questions_groq
    qa_chunks,      \* processed_data, as the Q&A loop reads it
    qa_i,           \* i of for i, item in enumerate(processed_data) (0-based)
    qa_attempt,     \* attempt of generate_questions_groq's for loop (0-based)
    qa_calls,       \* the requests posted to the QA Generator so far
    qa_rows,        \* the data rows written to qa_pairs_csv
    qa_failed,      \* the chunks reported "Failed Q&A for chunk i"
    qa_pc           \* "idle" | "qa" | "qa_done"

dvars == <<pairs, pos, seen_exact, unique_pairs, dedup_pc>>
cvars == <<heading, text, max_words, sentences, sent_pos, current_chunk,
           word_count, result, chunk_pc>>
svars == <<seg_path, doc, seg_max_words, sections, sec_pos, results, seg_pc>>
pvars == <<processed_data, eval_i, attempt, calls, metrics_rows, eval_failed,
           pipe_pc>>
qvars == <<qa_chunks, qa_i, qa_attempt, qa_calls, qa_rows, qa_failed, qa_pc>>
vars  == <<dvars, cvars, svars, pvars, qvars>>

\* the variables each component leaves alone
notDedup == <<cvars, svars, pvars, qvars>>
notChunk == <<dvars, svars, pvars, qvars>>
notSeg   == <<dvars, cvars, pvars, qvars>>
notPipe  == <<dvars, cvars, svars, qvars>>
notQA    == <<dvars, cvars, svars, pvars>>

-----------------------------------------------------------------------------
(* Bounds of the model *)

MaxPairs == 3
MaxBody == 4
MaxMaxWords == 3
MaxDoc == 4
MaxChunks == 3
MaxQAChunks == 2

-----------------------------------------------------------------------------
(* Generic helpers *)

Max(a, b) == IF a >= b THEN a ELSE b

Range(s) == {s[i] : i \in 1..Len(s)}

RECURSIVE Flatten(_)
Flatten(ss) == IF ss = <<>> THEN <<>> ELSE Head(ss) \o Flatten(Tail(ss))

IsPrefix(s, t) == Len(s) <= Len(t) /\ SubSeq(t, 1, Len(s)) = s

\* s is a subsequence of t: the elements of s occur in t, in order
RECURSIVE IsSubseq(_, _)
IsSubseq(s, t) ==
    IF s = <<>> THEN TRUE
    ELSE IF t = <<>> THEN FALSE
    ELSE IF Head(s) = Head(t) THEN IsSubseq(Tail(s), Tail(t))
    ELSE IsSubseq(s, Tail(t))

\* all sequences over S of length 0..n
SeqsUpTo(S, n) == UNION {[1..k -> S] : k \in 0..n}

-----------------------------------------------------------------------------
(* Python str operations on strings of characters *)

\* code points order the characters (sorted() on str compares code points)
Ord(c) ==
    CASE c = " " -> 32
      [] c = "A" -> 65
      [] c = "B" -> 66
      [] c = "X" -> 88
      [] c = "a" -> 97
      [] c = "b" -> 98
      [] c = "x" -> 120
      [] c = "y" -> 121

lowerChar(c) ==
    CASE c = "A" -> "a"
      [] c = "B" -> "b"
      [] c = "X" -> "x"
      [] OTHER -> c

isspace(c) == c = " "

\* str.lower()
lower(s) == [k \in 1..Len(s) |-> lowerChar(s[k])]

RECURSIVE lstrip(_)
lstrip(s) == IF s # <<>> /\ isspace(Head(s)) THEN lstrip(Tail(s)) ELSE s

RECURSIVE rstrip(_)
rstrip(s) ==
    IF s # <<>> /\ isspace(s[Len(s)]) THEN rstrip(SubSeq(s, 1, Len(s) - 1)) ELSE s

\* str.strip()
strip(s) == rstrip(lstrip(s))

\* str.split() with no separator: the maximal runs of non-space characters.
\* cur is the token being read.
RECURSIVE splitFrom(_, _)
splitFrom(s, cur) ==
    IF s = <<>> THEN (IF cur = <<>> THEN <<>> ELSE <<cur>>)
    ELSE IF isspace(Head(s))
         THEN (IF cur = <<>> THEN <<>> ELSE <<cur>>) \o splitFrom(Tail(s), <<>>)
         ELSE splitFrom(Tail(s), Append(cur, Head(s)))

split(s) == splitFrom(s, <<>>)

\* s < t in Python's str ordering
RECURSIVE strLess(_, _)
strLess(s, t) ==
    IF t = <<>> THEN FALSE
    ELSE IF s = <<>> THEN TRUE
    ELSE IF Head(s) = Head(t) THEN strLess(Tail(s), Tail(t))
    ELSE Ord(Head(s)) < Ord(Head(t))

\* sorted(S) for a set of strings
RECURSIVE sorted(_)
sorted(S) ==
    IF S = {} THEN <<>>
    ELSE LET m == CHOOSE x \in S : \A y \in S \ {x} : strLess(x, y)
         IN  <<m>> \o sorted(S \ {m})

\* " ".join(tokens)
RECURSIVE join(_)
join(toks) ==
    IF toks = <<>> THEN <<>>
    ELSE IF Len(toks) = 1 THEN Head(toks)
    ELSE Head(toks) \o <<" ">> \o join(Tail(toks))

-----------------------------------------------------------------------------
(* rapidfuzz.fuzz.token_set_ratio, as called by is_fuzzy_duplicate *)

\* length of the longest common subsequence
RECURSIVE lcs(_, _)
lcs(s, t) ==
    IF s = <<>> \/ t = <<>> THEN 0
    ELSE IF Head(s) = Head(t) THEN 1 + lcs(Tail(s), Tail(t))
    ELSE Max(lcs(Tail(s), t), lcs(s, Tail(t)))

\* Indel distance: insertions and deletions only
indel_distance(s, t) == Len(s) + Len(t) - 2 * lcs(s, t)

\* 100 - 100 * dist / lensum, in hundredths of a point, rounded down
norm_distance(dist, lensum) ==
    IF lensum = 0 THEN 10000 ELSE (10000 * (lensum - dist)) \div lensum

\* the similarity in hundredths of a point (0..10000)
token_set_ratio(s1, s2) ==
    LET tokens_a == Range(split(s1))
        tokens_b == Range(split(s2))
        intersect == tokens_a \cap tokens_b
        diff_ab == tokens_a \ tokens_b
        diff_ba == tokens_b \ tokens_a
        diff_ab_joined == join(sorted(diff_ab))
        diff_ba_joined == join(sorted(diff_ba))
        ab_len == Len(diff_ab_joined)
        ba_len == Len(diff_ba_joined)
        sect_len == Len(join(sorted(intersect)))
        sep == IF sect_len # 0 THEN 1 ELSE 0
        sect_ab_len == sect_len + sep + ab_len
        sect_ba_len == sect_len + sep + ba_len
        diff_ratio == norm_distance(indel_distance(diff_ab_joined, diff_ba_joined),
                                sect_ab_len + sect_ba_len)
        sect_ab_ratio == norm_distance(sep + ab_len, sect_len + sect_ab_len)
        sect_ba_ratio == norm_distance(sep + ba_len, sect_len + sect_ba_len)
    IN  IF s1 = <<>> \/ s2 = <<>> THEN 0
        ELSE IF tokens_a = {} \/ tokens_b = {} THEN 0
        ELSE IF intersect # {} /\ (diff_ab = {} \/ diff_ba = {}) THEN 10000
        ELSE IF sect_len = 0 THEN diff_ratio
        ELSE Max(diff_ratio, Max(sect_ab_ratio, sect_ba_ratio))

-----------------------------------------------------------------------------
(* cleaning_pairs.py *)

\* PARAMS['fuzzy_match_threshold']
fuzzy_match_threshold == 90

\* A field of a CSV record: a str, None (csv.DictReader fills a short row with
\* restval=None), or no such key in the dict.
Str(s)  == [kind |-> "str", s |-> s]
NoneVal == [kind |-> "none", s |-> <<>>]
Absent  == [kind |-> "absent", s |-> <<>>]

Questions == { <<"a">>, <<"A", " ">>, <<"a", " ", "b">>, <<"b">> }

\* two questions whose ratio lies between the threshold and 100 (90.9)
LongQuestions ==
    { <<"a", "a", "a", "a", "a">>, <<"a", "a", "a", "a", "a", "a">> }

Answers == { <<"x">>, <<" ", "X">>, <<"y">> }

\* what load_qa_pairs can return as one row, and what a caller can pass
Records ==
    [Question : {Str(q) : q \in Questions}, Answer : {Str(a) : a \in Answers}]
    \cup [Question : {Str(q) : q \in LongQuestions}, Answer : {Str(<<"x">>)}]
    \cup { [Question |-> Str(<<"a">>), Answer |-> NoneVal],
           [Question |-> Absent, Answer |-> Str(<<"x">>)] }

WellFormed(r) == r.Question.kind = "str" /\ r.Answer.kind = "str"

\* The questions are compared as written, without .lower().
is_fuzzy_duplicate_CaseSensitive(q1, q2) ==
    token_set_ratio(q1, q2) >= fuzzy_match_threshold * 100

\* is_fuzzy_duplicate(q1, q2, threshold) with the ratio in hundredths
is_fuzzy_duplicate(q1, q2) ==
    token_set_ratio(lower(q1), lower(q2)) >= fuzzy_match_threshold * 100

\* key = (q.lower(), a.lower()) of the stripped fields
exact_key(r) == <<lower(strip(r.Question.s)), lower(strip(r.Answer.s))>>

\* A fuzzy duplicate takes the place of the accepted record it matches
\* (latest record wins).
deduplicate_body_LatestWins(st, current) ==
    IF ~WellFormed(current) THEN [st EXCEPT !.raised = TRUE]
    ELSE
    LET q   == strip(current.Question.s)
        key == exact_key(current)
        up  == st.unique_pairs
        hit == {j \in 1..Len(up) : is_fuzzy_duplicate(q, up[j].Question.s)}
    IN  IF key \in st.seen_exact THEN st
        ELSE IF hit = {}
             THEN [st EXCEPT !.seen_exact = @ \cup {key},
                             !.unique_pairs = Append(@, current)]
             ELSE LET j == CHOOSE j \in hit : \A k \in hit : j <= k
                  IN  [st EXCEPT !.seen_exact = @ \cup {key},
                                 !.unique_pairs = [@ EXCEPT ![j] = current]]

\* The fuzzy check runs against every question seen so far, accepted or not.
deduplicate_body_AllSeen(st, current) ==
    IF ~WellFormed(current) THEN [st EXCEPT !.raised = TRUE]
    ELSE
    LET q   == strip(current.Question.s)
        key == exact_key(current)
        is_duplicate ==
            \E k \in st.seen_exact : is_fuzzy_duplicate(q, k[1])
    IN  IF key \in st.seen_exact THEN st
        ELSE IF ~is_duplicate
             THEN [st EXCEPT !.seen_exact = @ \cup {key},
                             !.unique_pairs = Append(@, current)]
             ELSE [st EXCEPT !.seen_exact = @ \cup {key}]

\* One iteration of the for loop of deduplicate (lines 58-73) on the record
\* current, from the loop state st = [seen_exact, unique_pairs, raised].
\* current['Question'] raises KeyError when the key is absent and
\* None.strip() raises AttributeError; nothing has been changed by then.
deduplicate_body(st, current) ==
    IF ~WellFormed(current) THEN [st EXCEPT !.raised = TRUE]
    ELSE
    LET q   == strip(current.Question.s)
        key == exact_key(current)
        is_duplicate ==
            \E j \in 1..Len(st.unique_pairs) :
                is_fuzzy_duplicate(q, st.unique_pairs[j].Question.s)
    IN  IF key \in st.seen_exact THEN st
        ELSE IF ~is_duplicate
             THEN [st EXCEPT !.seen_exact = @ \cup {key},
                             !.unique_pairs = Append(@, current)]
             ELSE [st EXCEPT !.seen_exact = @ \cup {key}]

deduplicate_init == [seen_exact |-> {}, unique_pairs |-> <<>>, raised |-> FALSE]

\* the loop over ps from state st; it stops at the first raise
RECURSIVE deduplicate_loop(_, _)
deduplicate_loop(st, ps) ==
    IF ps = <<>> \/ st.raised THEN st
    ELSE deduplicate_loop(deduplicate_body(st, Head(ps)), Tail(ps))

\* deduplicate(pairs): [raised, unique_pairs]
deduplicate(ps) == deduplicate_loop(deduplicate_init, ps)

DedupIdle ==
    /\ pairs = <<>>
    /\ pos = 1
    /\ seen_exact = {}
    /\ unique_pairs = <<>>
    /\ dedup_pc = "idle"

DedupInit ==
    /\ pairs \in SeqsUpTo(Records, MaxPairs)
    /\ pos = 1
    /\ seen_exact = deduplicate_init.seen_exact
    /\ unique_pairs = deduplicate_init.unique_pairs
    /\ dedup_pc = "loop"

\* for current in pairs: ... (one iteration)
DedupIter ==
    /\ dedup_pc = "loop"
    /\ pos <= Len(pairs)
    /\ LET st == deduplicate_body(
                    [seen_exact |-> seen_exact, unique_pairs |-> unique_pairs,
                     raised |-> FALSE], pairs[pos])
       IN  /\ seen_exact' = st.seen_exact
           /\ unique_pairs' = st.unique_pairs
           /\ dedup_pc' = IF st.raised THEN "raised" ELSE "loop"
           /\ pos' = IF st.raised THEN pos ELSE pos + 1
    /\ UNCHANGED pairs
    /\ UNCHANGED notDedup

\* return unique_pairs
DedupReturn ==
    /\ dedup_pc = "loop"
    /\ pos > Len(pairs)
    /\ dedup_pc' = "returned"
    /\ UNCHANGED <<pairs, pos, seen_exact, unique_pairs>>
    /\ UNCHANGED notDedup

DedupNext == DedupIter \/ DedupReturn

-----------------------------------------------------------------------------
(* scrapper2.py: the sentence-based chunker *)

\* The words of a body.  A word ending in "." ends a sentence.
Words == {"w", "A.", "B.", "C."}

Headings == {"H", "Intro"}

EndsSentence(w) == w \in {"A.", "B.", "C."}

\* nltk.sent_tokenize on a word sequence: a sentence runs up to and including
\* the next word that ends one; the words left at the end are a sentence too.
\* cur is the sentence being read.
RECURSIVE sentFrom(_, _)
sentFrom(ws, cur) ==
    IF ws = <<>> THEN (IF cur = <<>> THEN <<>> ELSE <<cur>>)
    ELSE IF EndsSentence(Head(ws))
         THEN <<Append(cur, Head(ws))>> \o sentFrom(Tail(ws), <<>>)
         ELSE sentFrom(Tail(ws), Append(cur, Head(ws)))

sent_tokenize(ws) == sentFrom(ws, <<>>)

\* ' '.join(current_chunk), as the words of the joined text
joinSentences(sents) == Flatten(sents)

\* One iteration of the for loop of split_section_into_chunks (lines 62-68)
\* on the sentence sent, from st = [current_chunk, word_count, result].
chunk_body(st, sent, h, mw) ==
    LET cc == Append(st.current_chunk, sent)
        wc == st.word_count + Len(sent)
    IN  IF wc >= mw
        THEN [current_chunk |-> <<>>, word_count |-> 0,
              result |-> Append(st.result, [heading |-> h, chunk |-> joinSentences(cc)])]
        ELSE [current_chunk |-> cc, word_count |-> wc, result |-> st.result]

\* the buffered tail is dropped instead of emitted
chunk_tail_DropsTail(st, h) == st.result

\* if current_chunk: result.append(...); return result (lines 70-73)
chunk_tail(st, h) ==
    IF st.current_chunk # <<>>
    THEN Append(st.result, [heading |-> h, chunk |-> joinSentences(st.current_chunk)])
    ELSE st.result

chunk_init == [current_chunk |-> <<>>, word_count |-> 0, result |-> <<>>]

RECURSIVE chunk_loop(_, _, _, _)
chunk_loop(st, sents, h, mw) ==
    IF sents = <<>> THEN st
    ELSE chunk_loop(chunk_body(st, Head(sents), h, mw), Tail(sents), h, mw)

\* split_section_into_chunks(heading, text, max_words)
split_section_into_chunks(h, ws, mw) ==
    chunk_tail(chunk_loop(chunk_init, sent_tokenize(ws), h, mw), h)

ChunkIdle ==
    /\ heading = "H"
    /\ text = <<>>
    /\ max_words = 1
    /\ sentences = <<>>
    /\ sent_pos = 1
    /\ current_chunk = <<>>
    /\ word_count = 0
    /\ result = <<>>
    /\ chunk_pc = "idle"

\* the call, up to the loop: sentences = sent_tokenize(text) and the locals
ChunkInit ==
    /\ heading \in Headings
    /\ text \in SeqsUpTo(Words, MaxBody)
    /\ max_words \in 1..MaxMaxWords
    /\ sentences = sent_tokenize(text)
    /\ sent_pos = 1
    /\ current_chunk = chunk_init.current_chunk
    /\ word_count = chunk_init.word_count
    /\ result = chunk_init.result
    /\ chunk_pc = "loop"

\* for sent in sentences: ... (one iteration)
ChunkIter ==
    /\ chunk_pc = "loop"
    /\ sent_pos <= Len(sentences)
    /\ LET st == chunk_body(
                    [current_chunk |-> current_chunk, word_count |-> word_count,
                     result |-> result], sentences[sent_pos], heading, max_words)
       IN  /\ current_chunk' = st.current_chunk
           /\ word_count' = st.word_count
           /\ result' = st.result
    /\ sent_pos' = sent_pos + 1
    /\ UNCHANGED <<heading, text, max_words, sentences, chunk_pc>>
    /\ UNCHANGED notChunk

\* after the loop: emit the tail and return
ChunkReturn ==
    /\ chunk_pc = "loop"
    /\ sent_pos > Len(sentences)
    /\ result' = chunk_tail(
                    [current_chunk |-> current_chunk, word_count |-> word_count,
                     result |-> result], heading)
    /\ chunk_pc' = "returned"
    /\ UNCHANGED <<heading, text, max_words, sentences, sent_pos,
                   current_chunk, word_count>>
    /\ UNCHANGED notChunk

ChunkNext == ChunkIter \/ ChunkReturn

-----------------------------------------------------------------------------
(* Pattern-based segmentation: scrapper2.split_pdf_with_nlp and            *)
(* data_preprocessing.split_by_sections                                    *)

\* A document is the sequence of its tokens: words, URLs (which clean_text
\* removes) and headings, the stretches section_pattern matches.
Url == "http://u"

HeadingTokens == {"#H", "#G"}

DocTokens == {"w", "A.", Url} \cup HeadingTokens

\* group(1) of a match, stripped
HeadingText(tok) == IF tok = "#H" THEN "H" ELSE "G"

\* clean_text: the URLs go, the words stay in order, single-spaced
clean_text(toks) == SelectSeq(toks, LAMBDA t : t # Url)

\* the positions section_pattern matches at
Matches(toks) == {k \in 1..Len(toks) : toks[k] \in HeadingTokens}

\* the text between the match at position k and the next match or the end
BodyAfter(toks, k) ==
    LET later == {m \in Matches(toks) : m > k}
        stop == IF later = {} THEN Len(toks) + 1
                ELSE CHOOSE m \in later : \A n \in later : m <= n
    IN  SubSeq(toks, k + 1, stop - 1)

\* the matches in document order, each with the body that follows it
RECURSIVE SectionsFrom(_, _)
SectionsFrom(toks, k) ==
    IF k > Len(toks) THEN <<>>
    ELSE IF toks[k] \in HeadingTokens
         THEN <<[heading |-> HeadingText(toks[k]), body |-> BodyAfter(toks, k)]>>
              \o SectionsFrom(toks, k + 1)
         ELSE SectionsFrom(toks, k + 1)

\* for j in range(0, len(words), max_words // 2): words[j:j + max_words]
\* (step > 0); the chunks in order of j
window_chunks(h, words, mw) ==
    LET step == mw \div 2
        n == (Len(words) + step - 1) \div step
    IN  [c \in 1..n |->
            [heading |-> h,
             chunk |-> SubSeq(words, (c - 1) * step + 1,
                              IF (c - 1) * step + mw <= Len(words)
                              THEN (c - 1) * step + mw ELSE Len(words))]]

\* the body of the loop of split_by_sections for one section (lines 18-28):
\* [raised, chunks]; range() raises ValueError on a step of 0
section_chunks(sec, mw) ==
    LET body == clean_text(sec.body)
        words == body
    IN  IF Len(words) > mw
        THEN IF mw \div 2 = 0
             THEN [raised |-> TRUE, chunks |-> <<>>]
             ELSE [raised |-> FALSE, chunks |-> window_chunks(sec.heading, words, mw)]
        ELSE [raised |-> FALSE, chunks |-> <<[heading |-> sec.heading, chunk |-> body]>>]

SegIdle ==
    /\ seg_path = "pdf"
    /\ doc = <<>>
    /\ seg_max_words = 1
    /\ sections = <<>>
    /\ sec_pos = 1
    /\ results = <<>>
    /\ seg_pc = "idle"

SegInit ==
    /\ seg_path \in {"pdf", "generic"}
    /\ doc \in SeqsUpTo(DocTokens, MaxDoc)
    /\ seg_max_words \in 1..MaxMaxWords
    /\ sections = <<>>
    /\ sec_pos = 1
    /\ results = <<>>
    /\ seg_pc = "start"

\* split_pdf_with_nlp, no match: return split_section_into_chunks("Generic", ...)
SegPdfFallback ==
    /\ seg_pc = "start" /\ seg_path = "pdf"
    /\ Matches(clean_text(doc)) = {}
    /\ results' = split_section_into_chunks("Generic", clean_text(doc), seg_max_words)
    /\ seg_pc' = "returned"
    /\ UNCHANGED <<seg_path, doc, seg_max_words, sections, sec_pos>>
    /\ UNCHANGED notSeg

\* split_pdf_with_nlp, some match: the sections of the cleaned text
SegPdfStart ==
    /\ seg_pc = "start" /\ seg_path = "pdf"
    /\ Matches(clean_text(doc)) # {}
    /\ sections' = SectionsFrom(clean_text(doc), 1)
    /\ seg_pc' = "loop"
    /\ UNCHANGED <<seg_path, doc, seg_max_words, sec_pos, results>>
    /\ UNCHANGED notSeg

\* split_pdf_with_nlp: one iteration of for i in range(len(matches))
SegPdfSection ==
    /\ seg_pc = "loop" /\ seg_path = "pdf"
    /\ sec_pos <= Len(sections)
    /\ results' = results \o split_section_into_chunks(
                      sections[sec_pos].heading, sections[sec_pos].body, seg_max_words)
    /\ sec_pos' = sec_pos + 1
    /\ UNCHANGED <<seg_path, doc, seg_max_words, sections, seg_pc>>
    /\ UNCHANGED notSeg

\* split_by_sections: sections = section_pattern.split(text); the text before
\* the first match is sections[0], which the loop never reads
SegGenericStart ==
    /\ seg_pc = "start" /\ seg_path = "generic"
    /\ sections' = SectionsFrom(doc, 1)
    /\ seg_pc' = "loop"
    /\ UNCHANGED <<seg_path, doc, seg_max_words, sec_pos, results>>
    /\ UNCHANGED notSeg

\* split_by_sections: one iteration of for i in range(1, len(sections), 2)
SegGenericSection ==
    /\ seg_pc = "loop" /\ seg_path = "generic"
    /\ sec_pos <= Len(sections)
    /\ LET r == section_chunks(sections[sec_pos], seg_max_words)
       IN  /\ results' = results \o r.chunks
           /\ seg_pc' = IF r.raised THEN "raised" ELSE "loop"
           /\ sec_pos' = IF r.raised THEN sec_pos ELSE sec_pos + 1
    /\ UNCHANGED <<seg_path, doc, seg_max_words, sections>>
    /\ UNCHANGED notSeg

\* return results
SegReturn ==
    /\ seg_pc = "loop"
    /\ sec_pos > Len(sections)
    /\ seg_pc' = "returned"
    /\ UNCHANGED <<seg_path, doc, seg_max_words, sections, sec_pos, results>>
    /\ UNCHANGED notSeg

SegNext ==
    \/ SegPdfFallback
    \/ SegPdfStart
    \/ SegPdfSection
    \/ SegGenericStart
    \/ SegGenericSection
    \/ SegReturn

-----------------------------------------------------------------------------
(* pipeline.py: the evaluation loop, and chunks_eval2.safe_evaluate_chunk *)

\* PARAMS['retry_attempts']
retry_attempts == 3

\* the chunk texts: split_by_sections can emit an empty one
ChunkTexts == {"", "c"}

\* an optional chunk: None, or a text
NoChunk == [given |-> FALSE, text |-> ""]
SomeChunk(t) == [given |-> TRUE, text |-> t]

\* prev_chunk = processed_data[i - 1]['chunk'] if i > 0 else None
prev_chunk(data, i) == IF i > 0 THEN SomeChunk(data[i]) ELSE NoChunk

\* build_eval_prompt asks for the overlap metric "if previous_chunk": a chunk
\* that is not None and not the empty string
overlap_requested(prev) == prev.given /\ prev.text # ""

\* one invocation of evaluate_chunk(chunk, prev), as the scorer sees it;
\* failed: the call or json.loads of its response raised
Call(i, prev, failed) ==
    [index |-> i, prev |-> prev, overlap |-> overlap_requested(prev),
     failed |-> failed]

\* the retry loop gives up one attempt early
last_attempt_OneEarly(a) == a >= retry_attempts - 1

\* if attempt == retries: raise
last_attempt(a) == a = retry_attempts

\* the row written for chunk i: chunk[:3000] and the metrics cells
Row(i, chunk) == [index |-> i, chunk |-> chunk]

PipeIdle ==
    /\ processed_data = <<>>
    /\ eval_i = 0
    /\ attempt = 1
    /\ calls = <<>>
    /\ metrics_rows = <<>>
    /\ eval_failed = <<>>
    /\ pipe_pc = "idle"

\* the metrics file holds its header row only; the loop is at its first chunk
PipeInit ==
    /\ processed_data \in SeqsUpTo(ChunkTexts, MaxChunks)
    /\ eval_i = 0
    /\ attempt = 1
    /\ calls = <<>>
    /\ metrics_rows = <<>>
    /\ eval_failed = <<>>
    /\ pipe_pc = "eval"

Evaluating == pipe_pc = "eval" /\ eval_i < Len(processed_data)

\* an attempt raises (the call, or json.loads) and it is not the last one:
\* sleep with backoff, then the next attempt
EvalAttemptFails ==
    /\ Evaluating
    /\ ~last_attempt(attempt)
    /\ calls' = Append(calls, Call(eval_i, prev_chunk(processed_data, eval_i), TRUE))
    /\ attempt' = attempt + 1
    /\ UNCHANGED <<processed_data, eval_i, metrics_rows, eval_failed, pipe_pc>>
    /\ UNCHANGED notPipe

\* the last attempt raises: safe_evaluate_chunk re-raises, the loop's except
\* reports the chunk and the loop goes on
EvalGivesUp ==
    /\ Evaluating
    /\ last_attempt(attempt)
    /\ calls' = Append(calls, Call(eval_i, prev_chunk(processed_data, eval_i), TRUE))
    /\ eval_failed' = Append(eval_failed, eval_i)
    /\ eval_i' = eval_i + 1
    /\ attempt' = 1
    /\ UNCHANGED <<processed_data, metrics_rows, pipe_pc>>
    /\ UNCHANGED notPipe

\* an attempt returns a JSON object: the row is appended, the loop goes on
EvalSaved ==
    /\ Evaluating
    /\ calls' = Append(calls, Call(eval_i, prev_chunk(processed_data, eval_i), FALSE))
    /\ metrics_rows' = Append(metrics_rows, Row(eval_i, processed_data[eval_i + 1]))
    /\ eval_i' = eval_i + 1
    /\ attempt' = 1
    /\ UNCHANGED <<processed_data, eval_failed, pipe_pc>>
    /\ UNCHANGED notPipe

\* an attempt returns JSON that is no object: metrics.get raises before
\* writerow is called, the loop's except reports the chunk and the loop goes on
EvalNotAnObject ==
    /\ Evaluating
    /\ calls' = Append(calls, Call(eval_i, prev_chunk(processed_data, eval_i), FALSE))
    /\ eval_failed' = Append(eval_failed, eval_i)
    /\ eval_i' = eval_i + 1
    /\ attempt' = 1
    /\ UNCHANGED <<processed_data, metrics_rows, pipe_pc>>
    /\ UNCHANGED notPipe

\* the loop is over
EvalDone ==
    /\ pipe_pc = "eval"
    /\ eval_i >= Len(processed_data)
    /\ pipe_pc' = "eval_done"
    /\ UNCHANGED <<processed_data, eval_i, attempt, calls, metrics_rows, eval_failed>>
    /\ UNCHANGED notPipe

PipeNext ==
    \/ EvalAttemptFails
    \/ EvalGivesUp
    \/ EvalSaved
    \/ EvalNotAnObject
    \/ EvalDone

-----------------------------------------------------------------------------
(* pipeline.py: the Q&A loop, and generate_QA.generate_questions_groq *)

\* What one request to the QA Generator comes to:
\*   "error"      requests.post raises (timeout, connection), or the body of
\*                a 200 response is not the expected JSON envelope
\*   "status"     a response with a status other than 200
\*   "pairs"      status 200, the content parses as a list of objects
\*   "not_pairs"  status 200, the content parses as JSON that is not a list
\*                of objects (an object, a list of strings)
\*   "repaired"   status 200, the content does not parse, ends in "}" and
\*                parses once "]" is appended
\*   "malformed"  status 200, the content does not parse and cannot be fixed
QAOutcomes == {"error", "status", "pairs", "not_pairs", "repaired", "malformed"}

\* the outcomes after which the for loop goes on to its next attempt
\* (the except clause, and the else branch of the status test)
qa_next_attempt(outcome) == outcome \in {"error", "status"}

\* the list generate_questions_groq returns on a 200 response: the parsed
\* pairs, or [] when the content cannot be parsed
qa_returned(outcome) == IF outcome = "malformed" THEN <<>> ELSE <<"pair">>

\* pair.get(...) works on every element of the returned value
qa_writable(outcome) == outcome # "not_pairs"

\* what the Q&A loop's except clause reports
QAFailure(i, error) == [index |-> i, error |-> error]

\* the for loop ends one attempt early
qa_last_attempt_OneEarly(a) == a >= retry_attempts - 2

\* attempt is the last value of range(retries)
qa_last_attempt(a) == a = retry_attempts - 1

QACall(i, outcome) == [index |-> i, outcome |-> outcome]

\* writer.writerow([i, question, answer])
QARow(i, pair) == [index |-> i, pair |-> pair]

QAIdle ==
    /\ qa_chunks = <<>>
    /\ qa_i = 0
    /\ qa_attempt = 0
    /\ qa_calls = <<>>
    /\ qa_rows = <<>>
    /\ qa_failed = <<>>
    /\ qa_pc = "idle"

\* the Q&A file holds its header row only; the loop is at its first chunk
QAInit ==
    /\ qa_chunks \in SeqsUpTo(ChunkTexts, MaxQAChunks)
    /\ qa_i = 0
    /\ qa_attempt = 0
    /\ qa_calls = <<>>
    /\ qa_rows = <<>>
    /\ qa_failed = <<>>
    /\ qa_pc = "qa"

Generating == qa_pc = "qa" /\ qa_i < Len(qa_chunks)

\* an attempt raises or gets a non-200 status, and it is not the last one:
\* sleep with backoff, then the next attempt
QAAttemptFails ==
    /\ Generating
    /\ ~qa_last_attempt(qa_attempt)
    /\ \E outcome \in {o \in QAOutcomes : qa_next_attempt(o)} :
          qa_calls' = Append(qa_calls, QACall(qa_i, outcome))
    /\ qa_attempt' = qa_attempt + 1
    /\ UNCHANGED <<qa_chunks, qa_i, qa_rows, qa_failed, qa_pc>>
    /\ UNCHANGED notQA

\* the last attempt raises or gets a non-200 status: the for loop ends,
\* RuntimeError is raised, the pipeline's except reports the chunk and the
\* loop goes on
QAGivesUp ==
    /\ Generating
    /\ qa_last_attempt(qa_attempt)
    /\ \E outcome \in {o \in QAOutcomes : qa_next_attempt(o)} :
          qa_calls' = Append(qa_calls, QACall(qa_i, outcome))
    /\ qa_failed' = Append(qa_failed, QAFailure(qa_i, "RuntimeError"))
    /\ qa_i' = qa_i + 1
    /\ qa_attempt' = 0
    /\ UNCHANGED <<qa_chunks, qa_rows, qa_pc>>
    /\ UNCHANGED notQA

\* an attempt gets a 200 response: generate_questions_groq returns (the
\* pairs, the repaired pairs, or []), the rows are written, the loop goes on
QAReturns ==
    /\ Generating
    /\ \E outcome \in {o \in QAOutcomes : ~qa_next_attempt(o) /\ qa_writable(o)} :
          /\ qa_calls' = Append(qa_calls, QACall(qa_i, outcome))
          /\ qa_rows' = qa_rows \o
                [n \in 1..Len(qa_returned(outcome)) |->
                    QARow(qa_i, qa_returned(outcome)[n])]
    /\ qa_i' = qa_i + 1
    /\ qa_attempt' = 0
    /\ UNCHANGED <<qa_chunks, qa_failed, qa_pc>>
    /\ UNCHANGED notQA

\* an attempt gets a 200 response whose content parses as something other
\* than a list of objects: generate_questions_groq returns it, pair.get
\* raises AttributeError, the except clause reports the chunk
QANotPairs ==
    /\ Generating
    /\ \E outcome \in {o \in QAOutcomes : ~qa_next_attempt(o) /\ ~qa_writable(o)} :
          qa_calls' = Append(qa_calls, QACall(qa_i, outcome))
    /\ qa_failed' = Append(qa_failed, QAFailure(qa_i, "AttributeError"))
    /\ qa_i' = qa_i + 1
    /\ qa_attempt' = 0
    /\ UNCHANGED <<qa_chunks, qa_rows, qa_pc>>
    /\ UNCHANGED notQA

\* the loop is over
QADone ==
    /\ qa_pc = "qa"
    /\ qa_i >= Len(qa_chunks)
    /\ qa_pc' = "qa_done"
    /\ UNCHANGED <<qa_chunks, qa_i, qa_attempt, qa_calls, qa_rows, qa_failed>>
    /\ UNCHANGED notQA

QANext ==
    \/ QAAttemptFails
    \/ QAGivesUp
    \/ QAReturns
    \/ QANotPairs
    \/ QADone

-----------------------------------------------------------------------------
(* The specifications, one per component *)

InitDedup == DedupInit /\ ChunkIdle /\ SegIdle /\ PipeIdle /\ QAIdle

SpecDedup == InitDedup /\ [][DedupNext]_vars

InitChunk == ChunkInit /\ DedupIdle /\ SegIdle /\ PipeIdle /\ QAIdle

SpecChunk == InitChunk /\ [][ChunkNext]_vars

InitSeg == SegInit /\ DedupIdle /\ ChunkIdle /\ PipeIdle /\ QAIdle

SpecSeg == InitSeg /\ [][SegNext]_vars

InitPipe == PipeInit /\ DedupIdle /\ ChunkIdle /\ SegIdle /\ QAIdle

SpecPipe == InitPipe /\ [][PipeNext]_vars

InitQA == QAInit /\ DedupIdle /\ ChunkIdle /\ SegIdle /\ PipeIdle

SpecQA == InitQA /\ [][QANext]_vars

-----------------------------------------------------------------------------
(* Properties of deduplicate *)

\* the question similarity the deduplicator is specified with: the token-set
\* ratio of the lowercased questions, against the configured threshold
SimilarQuestions(r1, r2) ==
    token_set_ratio(lower(r1.Question.s), lower(r2.Question.s))
        >= fuzzy_match_threshold * 100

\* pairs[i] is the first input record that carries its exact key
FirstOccurrence(i) ==
    \A k \in 1..(i - 1) :
        WellFormed(pairs[k]) => exact_key(pairs[k]) # exact_key(pairs[i])

\* C1: deduplicate is idempotent: applied to its own output it returns the
\* same records in the same order.
C1_Idempotent ==
    dedup_pc = "returned" =>
        LET again == deduplicate(unique_pairs)
        IN  ~again.raised /\ again.unique_pairs = unique_pairs

\* a run that dropped a record and kept at least two
C1_Witness ==
    /\ dedup_pc = "returned"
    /\ Len(unique_pairs) >= 2
    /\ Len(pairs) > Len(unique_pairs)

\* C2: after any prefix of the input and at the end, no two accepted records
\* have equal exact keys and no accepted record's question is similar (ratio
\* >= threshold) to the question of a record accepted before it.
C2_NoDuplicateAccepted ==
    \A j, k \in 1..Len(unique_pairs) :
        j < k => /\ exact_key(unique_pairs[j]) # exact_key(unique_pairs[k])
                 /\ ~SimilarQuestions(unique_pairs[k], unique_pairs[j])

\* a record accepted, and both an exact and a fuzzy duplicate of it dropped
C2_Witness ==
    /\ Len(unique_pairs) >= 1
    /\ \E i \in 1..(pos - 1) : ~FirstOccurrence(i)
    /\ \E i \in 1..(pos - 1) :
          /\ FirstOccurrence(i)
          /\ pairs[i] \notin Range(unique_pairs)

\* C3 as stated: the first input record carrying each exact key is in the
\* output.
C3_FirstOccurrenceKept ==
    dedup_pc = "returned" =>
        \A i \in 1..Len(pairs) :
            FirstOccurrence(i) => pairs[i] \in Range(unique_pairs)

\* C3 amended: the first input record carrying an exact key is accepted when
\* it is processed, unless its question is similar (ratio >= threshold) to
\* the question of a record accepted by then.
C3_FirstOccurrenceKeptUnlessFuzzy ==
    [][ (dedup_pc = "loop" /\ pos' = pos + 1) =>
          ( ( /\ FirstOccurrence(pos)
              /\ \A j \in 1..Len(unique_pairs) :
                    ~SimilarQuestions(pairs[pos], unique_pairs[j]) )
            => unique_pairs' = Append(unique_pairs, pairs[pos]) ) ]_vars

\* a first occurrence was dropped as a fuzzy duplicate, and a later first
\* occurrence, similar only to the dropped record, was accepted
C3_Witness ==
    /\ dedup_pc = "returned"
    /\ \E i, k \in 1..Len(pairs) :
          /\ i < k
          /\ FirstOccurrence(i) /\ pairs[i] \notin Range(unique_pairs)
          /\ FirstOccurrence(k) /\ pairs[k] \in Range(unique_pairs)
          /\ SimilarQuestions(pairs[k], pairs[i])

\* C4: the accepted list is a subsequence of the input read so far, and it
\* only grows by appending: what was accepted stays, unchanged and in place.
C4_AppendOnlySubsequence ==
    /\ [](IsSubseq(unique_pairs, SubSeq(pairs, 1, pos - 1)))
    /\ [][IsPrefix(unique_pairs, unique_pairs')]_vars

\* a run that dropped a record and returned at least two, one of them with
\* a question that strip() would change
C4_Witness ==
    /\ dedup_pc = "returned"
    /\ Len(unique_pairs) >= 2
    /\ unique_pairs # pairs
    /\ \E i \in 1..Len(pairs) : strip(pairs[i].Question.s) # pairs[i].Question.s
                                /\ pairs[i] \in Range(unique_pairs)

\* a missing field read as the empty string
Filled(r) ==
    [Question |-> Str(r.Question.s), Answer |-> Str(r.Answer.s)]

\* C5: deduplicate never raises, and a record with a missing field is
\* processed as if that field were the empty string.
C5_TotalOnMissingField ==
    /\ dedup_pc # "raised"
    /\ dedup_pc = "returned" =>
          [k \in 1..Len(unique_pairs) |-> Filled(unique_pairs[k])]
              = deduplicate([k \in 1..Len(pairs) |-> Filled(pairs[k])]).unique_pairs

\* The specified deduplication: a record whose exact key is registered is
\* dropped; otherwise its question is compared, case-insensitively, with the
\* question of every accepted record, and it is dropped when one comparison
\* reaches the threshold; otherwise it is accepted and its exact key is
\* registered.  A missing field counts as the empty string.
specified_body(st, current) ==
    LET r   == Filled(current)
        key == exact_key(r)
        is_duplicate ==
            \E j \in 1..Len(st.unique_pairs) :
                is_fuzzy_duplicate(r.Question.s,
                                   Filled(st.unique_pairs[j]).Question.s)
    IN  IF key \in st.seen_exact \/ is_duplicate THEN st
        ELSE [st EXCEPT !.seen_exact = @ \cup {key},
                        !.unique_pairs = Append(@, current)]

RECURSIVE specified_loop(_, _)
specified_loop(st, ps) ==
    IF ps = <<>> THEN st
    ELSE specified_loop(specified_body(st, Head(ps)), Tail(ps))

specified_deduplicate(ps) == specified_loop(deduplicate_init, ps).unique_pairs

\* C12: for every input sequence deduplicate as coded (the exact key is
\* registered before the fuzzy check) returns what the specified algorithm
\* (the key is registered on acceptance only) returns: it does not raise, and
\* after every record read, and at the end, the accepted list is the
\* specified one for the records read.
C12_SameAsSpecified ==
    /\ dedup_pc # "raised"
    /\ dedup_pc \in {"loop", "returned"} =>
          unique_pairs = specified_deduplicate(SubSeq(pairs, 1, pos - 1))

-----------------------------------------------------------------------------
(* Properties of the sentence-based chunker *)

\* the sentences of the chunks emitted so far, in emission order
EmittedSentences ==
    Flatten([k \in 1..Len(result) |-> sent_tokenize(result[k].chunk)])

\* C6: every emitted chunk has at most max_words words, unless it consists
\* of a single sentence that alone has more than max_words words.
C6_ChunkWithinMaxWords ==
    \A k \in 1..Len(result) :
        \/ Len(result[k].chunk) <= max_words
        \/ Len(sent_tokenize(result[k].chunk)) = 1

\* C7: for a body of more than max_words words, every chunk but possibly the
\* last had at least max_words words when emitted, no chunk is empty, every
\* chunk carries the section heading, and the chunks' sentences in emission
\* order (with the buffered ones, while the loop runs) are the sentences of
\* the body read so far; at the return they are all of them.  The sentences
\* A., B., C. with max_words = 2 give A. B. and C.
C7_LosslessChunks ==
    Len(text) > max_words =>
        /\ \A k \in 1..Len(result) :
              /\ (k < Len(result) \/ chunk_pc = "loop")
                    => Len(result[k].chunk) >= max_words
              /\ result[k].chunk # <<>>
              /\ result[k].heading = heading
        /\ chunk_pc = "loop" =>
              EmittedSentences \o current_chunk = SubSeq(sentences, 1, sent_pos - 1)
        /\ chunk_pc = "returned" => EmittedSentences = sentences
        /\ (chunk_pc = "returned" /\ text = <<"A.", "B.", "C.">> /\ max_words = 2)
              => result = << [heading |-> heading, chunk |-> <<"A.", "B.">>],
                             [heading |-> heading, chunk |-> <<"C.">>] >>

\* a body longer than max_words, cut into a full chunk and a shorter tail
C7_Witness ==
    /\ chunk_pc = "returned"
    /\ Len(text) > max_words
    /\ Len(result) >= 2
    /\ Len(result[Len(result)].chunk) < max_words
    /\ Len(sentences) >= 3

\* C13: a sentence of more than max_words words is emitted alone: the chunk
\* holding it holds no other sentence; and no sentence is split: the chunks'
\* sentences are sentences of the body, in order.
C13_LongSentenceAlone ==
    /\ \A k \in 1..Len(result) :
          LET in_chunk == sent_tokenize(result[k].chunk)
          IN  (\E n \in 1..Len(in_chunk) : Len(in_chunk[n]) > max_words)
                  => Len(in_chunk) = 1
    /\ IsPrefix(EmittedSentences, sentences)

-----------------------------------------------------------------------------
(* Properties of the segmentation paths *)

\* the body of the section the loop is at, as the chunker receives it
SectionBody ==
    IF seg_path = "generic" THEN clean_text(sections[sec_pos].body)
    ELSE sections[sec_pos].body

\* one chunk holding the whole body, and none for an empty body
WholeBodyChunk(h, body) ==
    IF body = <<>> THEN <<>> ELSE <<[heading |-> h, chunk |-> body]>>

\* C8: on both paths a section whose body has at most max_words words adds
\* exactly one chunk, the whole body, and an empty body adds no chunk.
C8_SmallSectionOneChunk ==
    [][ /\ ( /\ seg_pc = "loop"
             /\ sec_pos' = sec_pos + 1
             /\ Len(SectionBody) <= seg_max_words )
           => results' = results \o WholeBodyChunk(sections[sec_pos].heading, SectionBody)
        /\ ( /\ seg_pc = "start"
             /\ seg_pc' = "returned"
             /\ Len(clean_text(doc)) <= seg_max_words )
           => results' = WholeBodyChunk("Generic", clean_text(doc)) ]_vars

\* the words of the chunks collected
ChunkWords == UNION {Range(results[k].chunk) : k \in 1..Len(results)}

\* C9: a non-empty document without any heading match is not dropped: its
\* text is emitted, as chunks under the heading "Generic".
C9_NoHeadingGeneric ==
    ( /\ seg_pc = "returned"
      /\ Matches(doc) = {}
      /\ clean_text(doc) # <<>> )
    => /\ results # <<>>
       /\ \A k \in 1..Len(results) : results[k].heading = "Generic"
       /\ ChunkWords = Range(clean_text(doc))

\* the chunks a step of the loop adds
AddedChunks == SubSeq(results', Len(results) + 1, Len(results'))

\* the chunks added are windows over body: the k-th (from 0) starts at word
\* k * (mw div 2) and has at most mw words, the windows are in body order and
\* every word of body lies in one
SlidingWindows(added, body, mw) ==
    LET step == mw \div 2
    IN  /\ \A c \in 1..Len(added) :
              /\ (c - 1) * step < Len(body)
              /\ added[c].chunk =
                    SubSeq(body, (c - 1) * step + 1,
                           IF (c - 1) * step + mw <= Len(body)
                           THEN (c - 1) * step + mw ELSE Len(body))
              /\ Len(added[c].chunk) <= mw
        /\ \A p \in 1..Len(body) :
              \E c \in 1..Len(added) :
                  (c - 1) * step < p /\ p <= (c - 1) * step + mw

\* C15: in split_by_sections, for every max_words >= 1, a section body of
\* more than max_words words raises no error and adds sliding windows of at
\* most max_words words, stride max_words div 2, that cover the body in order.
C15_WindowsForEveryMaxWords ==
    [][ ( /\ seg_path = "generic"
          /\ seg_pc = "loop"
          /\ sec_pos <= Len(sections)
          /\ Len(SectionBody) > seg_max_words )
        => /\ seg_pc' # "raised"
           /\ SlidingWindows(AddedChunks, SectionBody, seg_max_words) ]_vars

-----------------------------------------------------------------------------
(* Properties of the evaluation loop *)

\* the invocations made for chunk k
CallsFor(k) == SelectSeq(calls, LAMBDA c : c.index = k)

\* chunk k was invoked for at least once and every invocation failed
FailedEveryAttempt(k) ==
    /\ CallsFor(k) # <<>>
    /\ \A n \in 1..Len(CallsFor(k)) : CallsFor(k)[n].failed

HasRow(k) == \E n \in 1..Len(metrics_rows) : metrics_rows[n].index = k

\* C10: when the scorer fails on every attempt for a chunk, exactly
\* retry_attempts invocations are made for it, the chunk is reported failed
\* and gets no metrics row, the step that gives it up writes nothing and
\* leaves the loop at the next chunk, and rows are only ever appended.
C10_FailedChunkSkipped ==
    /\ [](\A k \in 0..(eval_i - 1) :
            FailedEveryAttempt(k) =>
                /\ Len(CallsFor(k)) = retry_attempts
                /\ ~HasRow(k)
                /\ k \in Range(eval_failed))
    /\ [](\A k \in 0..(Len(processed_data) - 1) :
            Len(CallsFor(k)) <= retry_attempts)
    /\ [][ (eval_i' = eval_i + 1 /\ calls'[Len(calls')].failed) =>
              /\ metrics_rows' = metrics_rows
              /\ pipe_pc' = "eval"
              /\ attempt' = 1 ]_vars
    /\ [][IsPrefix(metrics_rows, metrics_rows')]_vars

\* chunk 0 got its row, chunk 1 failed on every attempt, chunk 2 got its row
C10_Witness ==
    /\ pipe_pc = "eval_done"
    /\ Len(processed_data) = 3
    /\ FailedEveryAttempt(1)
    /\ HasRow(0) /\ HasRow(2) /\ ~HasRow(1)

\* C14: every invocation for chunk 0 passes no previous chunk and requests no
\* overlap metric; every invocation for a chunk i > 0 passes chunk i-1 of
\* processed_data, whether or not that chunk got a row, and requests the
\* overlap metric.
C14_OverlapAbsentOnlyForFirst ==
    \A n \in 1..Len(calls) :
        LET c == calls[n]
        IN  IF c.index = 0
            THEN c.prev = NoChunk /\ ~c.overlap
            ELSE /\ c.prev = SomeChunk(processed_data[c.index])
                 /\ c.overlap

-----------------------------------------------------------------------------
(* Properties of the Q&A loop *)

\* the requests posted for chunk k
QACallsFor(k) == SelectSeq(qa_calls, LAMBDA c : c.index = k)

\* the step posts a request, and this is what it comes to
QAPosted(outcome) ==
    /\ Len(qa_calls') = Len(qa_calls) + 1
    /\ qa_calls'[Len(qa_calls')].outcome = outcome

\* attempts remain for the chunk of the request just posted
QAAttemptsRemain == Len(SelectSeq(qa_calls', LAMBDA c : c.index = qa_i)) < retry_attempts

\* the loop stays on its chunk and reports nothing: the request is retried
QARetried ==
    /\ qa_i' = qa_i
    /\ qa_failed' = qa_failed
    /\ qa_rows' = qa_rows
    /\ qa_pc' = "qa"

\* C11 as stated: every failed invocation, an unparseable response included,
\* is retried while attempts remain.
C11_EveryFailureRetried ==
    [][ \A o \in {"error", "status", "malformed"} :
            (QAPosted(o) /\ QAAttemptsRemain) => QARetried ]_vars

\* C11 amended: an invocation that raises or gets a non-200 status is retried
\* while attempts remain; an unparseable 200 response is not retried, the
\* generator returns the empty list and no failure is reported; no chunk gets
\* more than retry_attempts invocations; the generator's terminal failure
\* (RuntimeError) is reported for a chunk only after retry_attempts
\* invocations that all raised or got a non-200 status, and the loop is then
\* at the next chunk.
C11_RetryContract ==
    /\ [][ \A o \in {"error", "status"} :
              (QAPosted(o) /\ QAAttemptsRemain) => QARetried ]_vars
    /\ [][ QAPosted("malformed") =>
              /\ qa_i' = qa_i + 1
              /\ qa_rows' = qa_rows
              /\ qa_failed' = qa_failed ]_vars
    /\ [](\A k \in 0..(Len(qa_chunks) - 1) :
              Len(QACallsFor(k)) <= retry_attempts)
    /\ [](\A f \in Range(qa_failed) :
              f.error = "RuntimeError" =>
                  /\ Len(QACallsFor(f.index)) = retry_attempts
                  /\ \A n \in 1..Len(QACallsFor(f.index)) :
                        QACallsFor(f.index)[n].outcome \in {"error", "status"}
                  /\ f.index < qa_i)
    /\ [][ qa_failed' # qa_failed =>
              /\ \E error \in {"RuntimeError", "AttributeError"} :
                    qa_failed' = Append(qa_failed, QAFailure(qa_i, error))
              /\ qa_i' = qa_i + 1
              /\ qa_pc' = "qa" ]_vars

\* chunk 0 timed out, got a non-200 status and then an unparseable response,
\* which ended its attempts without a report; chunk 1 failed every attempt
C11_Witness ==
    /\ qa_pc = "qa_done"
    /\ Len(qa_chunks) = 2
    /\ Len(QACallsFor(0)) = 3
    /\ QACallsFor(0)[1].outcome = "error"
    /\ QACallsFor(0)[2].outcome = "status"
    /\ QACallsFor(0)[3].outcome = "malformed"
    /\ qa_failed = <<QAFailure(1, "RuntimeError")>>
    /\ qa_rows = <<>>

=============================================================================
